---- MODULE Spec2Model ----
(***************************************************************************)
(* base::Angle (src/base/angle.h): a value type holding one double, the    *)
(* angle in radians, canonicalized on construction.                        *)
(*                                                                         *)
(* Numbers.  Real values are modelled exactly on a grid.  A radian value   *)
(* is an integer count of units of pi/PI radians (PI = 18: one unit is 10  *)
(* degrees), so M_PI is the integer PI and 2*M_PI is 2*PI.  A degree value *)
(* is an integer count of degrees, restricted to multiples of one radian   *)
(* unit so that deg / 180.0 * M_PI is exact.  Scalars are integers.  The   *)
(* arithmetic is exact (no floating-point rounding).                       *)
(*                                                                         *)
(* State.  The class has no global state; the state of the model is the    *)
(* chain of calls a client has made: each call with its arguments and its  *)
(* result.  A call either starts a new chain on freshly chosen arguments   *)
(* or is applied to the result of the last call of the chain.              *)
(***************************************************************************)
EXTENDS Integers, Sequences, FiniteSets

\* ---------------------------------------------------------------- bounds
MaxRad   == 90      \* raw radian inputs range over -MaxRad..MaxRad (5 half-turns each way)
MaxDeg   == 720     \* raw degree inputs range over -MaxDeg..MaxDeg
MaxScale == 3       \* scalar factors range over -MaxScale..MaxScale
MaxPrec  == 4       \* precisions range over -1..MaxPrec
MaxChain == 4       \* longest chain of calls recorded

\* ------------------------------------------------------------- constants
\* M_PI, in radian units: a half turn is PI units.
PI == 18

\* The default of isApprox's prec argument (1e-5).  On the grid it is the
\* smallest positive precision: a difference is below it iff it is zero,
\* exactly as for 1e-5, which is below one grid unit.
DefaultPrec == 1

\* One radian unit in degrees.
DegUnit == 180 \div PI

Doubles == (-MaxRad)..MaxRad
Degrees == {d \in (-MaxDeg)..MaxDeg : d % DegUnit = 0}
Scalars == (-MaxScale)..MaxScale
Precs   == (-1)..MaxPrec

\* ------------------------------------------------------- <math.h> helpers
\* Quotient rounded toward zero.
trunc(n, d) == IF n >= 0 THEN n \div d ELSE -((-n) \div d)

\* modf(n/d, &intp): the fractional part of the real n/d, with the sign of
\* n/d, returned as its numerator over d (d > 0); intp receives trunc(n, d).
modf(n, d) == n - d * trunc(n, d)

\* copysign(m, x): the magnitude of m with the sign of x.
copysign(m, x) ==
    LET mag == IF m < 0 THEN -m ELSE m
    IN  IF x < 0 THEN -mag ELSE mag

fabs(x) == IF x < 0 THEN -x ELSE x

\* ------------------------------------------------------------ class Angle
\* Mutants of canonize.
canonize_noOffset(rad) ==
    IF rad > PI \/ rad <= -PI
    THEN (2 * PI * modf(rad - copysign(PI, rad), 2 * PI)) \div (2 * PI)
    ELSE rad

canonize_strictLower(rad) ==
    IF rad > PI \/ rad < -PI
    THEN LET side == copysign(PI, rad)
         IN  -side + (2 * PI * modf(rad - side, 2 * PI)) \div (2 * PI)
    ELSE rad

canonize_closedUpper(rad) ==
    IF rad >= PI \/ rad <= -PI
    THEN LET side == copysign(PI, rad)
         IN  -side + (2 * PI * modf(rad - side, 2 * PI)) \div (2 * PI)
    ELSE rad

\* void canonize(): the new value of the field rad.
\* 2*M_PI * modf((rad-side) / (2*M_PI), &intp) is 2*PI times a fraction with
\* denominator 2*PI, hence the exact division.
canonize(rad) ==
    IF rad > PI \/ rad <= -PI
    THEN LET side == copysign(PI, rad)
         IN  -side + (2 * PI * modf(rad - side, 2 * PI)) \div (2 * PI)
    ELSE rad

\* explicit Angle( double rad ) : rad(rad) { canonize(); }
Angle(rad) == [rad |-> canonize(rad)]

rad2Deg(rad) == (rad * 180) \div PI

deg2Rad(deg) == (deg * PI) \div 180

fromRad(rad) == Angle(rad)

\* Mutant of fromDeg: the division done on integers.
fromDeg_intDiv(deg) == Angle(trunc(deg, 180) * PI)

\* Angle( deg / 180.0 * M_PI ); exact on Degrees.
fromDeg(deg) == Angle((deg * PI) \div 180)

getRad(this) == this.rad

\* rad / M_PI * 180
getDeg(this) == (this.rad * 180) \div PI

\* Mutant of isApprox: a closed comparison.
isApprox_closed(this, other, prec) == fabs(other.rad - this.rad) <= prec

isApprox(this, other, prec) == fabs(other.rad - this.rad) < prec

\* --------------------------------------------------------- free operators
\* Mutant of operator+: the sum stored without canonicalization.
operatorPlus_raw(a, b) == [rad |-> getRad(a) + getRad(b)]

operatorPlus(a, b) == fromRad(getRad(a) + getRad(b))

\* Mutant of operator-: the operands swapped.
operatorMinus_swapped(a, b) == fromRad(getRad(b) - getRad(a))

operatorMinus(a, b) == fromRad(getRad(a) - getRad(b))

operatorMulAngleDouble(a, b) == fromRad(getRad(a) * b)

\* Mutant of operator*(double, Angle): a sum instead of a product.
operatorMulDoubleAngle_sum(a, b) == fromRad(a + getRad(b))

operatorMulDoubleAngle(a, b) == fromRad(a * getRad(b))

\* ------------------------------------------------------------------ state
VARIABLES trace

vars == <<trace>>

\* The Angles a client can hold: whatever the factory returns.
Angles == {fromRad(x) : x \in Doubles}

\* Placeholder for an Angle argument or result a call does not have.
NoAngle == [rad |-> 0]

\* The record of one call: its name, its double argument r (radians,
\* degrees, scalar or precision), its Angle arguments a (the receiver or the
\* left operand) and b, and its result: an Angle res, a double val or a
\* bool ok.
Call(op, r, a, b, res, val, ok) ==
    [op |-> op, r |-> r, a |-> a, b |-> b, res |-> res, val |-> val, ok |-> ok]

Last == trace[Len(trace)]

\* The calls that return an Angle.
AngleOps == {"fromRad", "fromDeg", "add", "sub", "mulAD", "mulDA"}

\* A chain starts when no call has been made yet, and grows up to MaxChain.
Fresh == Len(trace) = 0

CanChain == Len(trace) > 0 /\ Len(trace) < MaxChain

Init == trace = << >>

\* Angle::fromRad(rad), on a new value or on the value the last call returned.
FromRad ==
    \/ /\ Fresh
       /\ \E x \in Doubles :
             trace' = << Call("fromRad", x, NoAngle, NoAngle, fromRad(x), 0, FALSE) >>
    \/ /\ CanChain
       /\ Last.op = "getRad"
       /\ trace' = Append(trace,
             Call("fromRad", Last.val, NoAngle, NoAngle, fromRad(Last.val), 0, FALSE))

\* Angle::fromDeg(deg)
FromDeg ==
    /\ Fresh
    /\ \E d \in Degrees :
       trace' = << Call("fromDeg", d, NoAngle, NoAngle, fromDeg(d), 0, FALSE) >>

\* getRad() on the Angle the last call returned.
GetRad ==
    /\ CanChain
    /\ Last.op \in AngleOps
    /\ trace' = Append(trace,
          Call("getRad", 0, Last.res, NoAngle, NoAngle, getRad(Last.res), FALSE))

\* getDeg() on the Angle the last call returned.
GetDeg ==
    /\ CanChain
    /\ Last.op \in AngleOps
    /\ trace' = Append(trace,
          Call("getDeg", 0, Last.res, NoAngle, NoAngle, getDeg(Last.res), FALSE))

\* a.isApprox(other, prec), and a.isApprox(other) with the default prec.
IsApprox ==
    /\ Fresh
    /\ \E x \in Angles, y \in Angles :
       \/ \E p \in Precs :
             trace' = << Call("isApprox", p, x, y, NoAngle, 0, isApprox(x, y, p)) >>
       \/ trace' = << Call("isApproxDefault", DefaultPrec, x, y, NoAngle, 0,
                           isApprox(x, y, DefaultPrec)) >>

\* a + b
Add ==
    /\ Fresh
    /\ \E x \in Angles, y \in Angles :
       trace' = << Call("add", 0, x, y, operatorPlus(x, y), 0, FALSE) >>

\* a - b, on fresh operands, or (a + b) - b after a sum.
Sub ==
    \/ /\ Fresh
       /\ \E x \in Angles, y \in Angles :
             trace' = << Call("sub", 0, x, y, operatorMinus(x, y), 0, FALSE) >>
    \/ /\ CanChain
       /\ Last.op = "add"
       /\ trace' = Append(trace,
             Call("sub", 0, Last.res, Last.b, operatorMinus(Last.res, Last.b), 0, FALSE))

\* a * k
MulAngleDouble ==
    /\ Fresh
    /\ \E x \in Angles, k \in Scalars :
       trace' = << Call("mulAD", k, x, NoAngle, operatorMulAngleDouble(x, k), 0, FALSE) >>

\* k * a, on the operands of the a * k just computed.
MulDoubleAngle ==
    /\ CanChain
    /\ Last.op = "mulAD"
    /\ trace' = Append(trace,
          Call("mulDA", Last.r, Last.a, NoAngle,
               operatorMulDoubleAngle(Last.r, Last.a), 0, FALSE))

Next ==
    \/ FromRad
    \/ FromDeg
    \/ GetRad
    \/ GetDeg
    \/ IsApprox
    \/ Add
    \/ Sub
    \/ MulAngleDouble
    \/ MulDoubleAngle

Spec == Init /\ [][Next]_vars

\* ------------------------------------------------------------- properties
IsCanonical(v) == -PI < v /\ v <= PI

Congruent(x, y, m) == (x - y) % m = 0

TypeOK ==
    /\ Len(trace) <= MaxChain
    /\ \A i \in 1..Len(trace) :
          trace[i].op \in AngleOps \cup {"getRad", "getDeg", "isApprox", "isApproxDefault"}

\* The chain has at least n calls and its first n calls are ops[1..n].
Chain(ops) ==
    /\ Len(trace) >= Len(ops)
    /\ \A i \in 1..Len(ops) : trace[i].op = ops[i]

\* C1: for every input r, the Angle built by fromRad(r) stores a radian
\* value v with -PI < v <= PI.
C1_CanonicalRange ==
    \A i \in 1..Len(trace) :
       trace[i].op = "fromRad" => IsCanonical(trace[i].res.rad)

\* C2: for every input r, fromRad(r).getRad() differs from r by an integer
\* multiple of 2*PI.
C2_CongruentModTwoPi ==
    \A i \in 1..Len(trace) :
       /\ trace[i].op = "fromRad" => Congruent(trace[i].res.rad, trace[i].r, 2 * PI)
       /\ (i > 1 /\ trace[i].op = "getRad" /\ trace[i-1].op = "fromRad")
             => Congruent(trace[i].val, trace[i-1].r, 2 * PI)

C2_Witness ==
    /\ Chain(<<"fromRad", "getRad">>)
    /\ trace[1].r = 5 * PI - 1
    /\ trace[2].val = PI - 1

\* C3: canonicalization is idempotent: fromRad(fromRad(r).getRad()).getRad()
\* equals fromRad(r).getRad().
C3_Idempotent ==
    Chain(<<"fromRad", "getRad", "fromRad", "getRad">>)
       => trace[4].val = trace[2].val

\* C4: for canonical a and b, a + b and a - b hold the unique value in
\* (-PI, PI] congruent to a.getRad() + b.getRad(), respectively
\* a.getRad() - b.getRad(), modulo 2*PI; fromDeg(170) + fromDeg(20) has the
\* radian value of fromDeg(-170).
C4_SumAndDifference ==
    \A i \in 1..Len(trace) :
       LET c == trace[i]
           both == IsCanonical(c.a.rad) /\ IsCanonical(c.b.rad)
       IN  /\ (c.op = "add" /\ both) =>
                /\ IsCanonical(c.res.rad)
                /\ Congruent(c.res.rad, c.a.rad + c.b.rad, 2 * PI)
           /\ (c.op = "sub" /\ both) =>
                /\ IsCanonical(c.res.rad)
                /\ Congruent(c.res.rad, c.a.rad - c.b.rad, 2 * PI)
           /\ (c.op = "add" /\ c.a = fromDeg(170) /\ c.b = fromDeg(20)) =>
                c.res.rad = fromDeg(-170).rad

C4_Witness ==
    /\ Chain(<<"add">>)
    /\ trace[1].a = fromDeg(170)
    /\ trace[1].b = fromDeg(20)
    /\ trace[1].res.rad = -(PI - 1)

\* C5: fromRad(PI).getRad() equals PI and fromRad(-PI).getRad() equals PI.
C5_Boundary ==
    (Chain(<<"fromRad", "getRad">>) /\ trace[1].r \in {PI, -PI})
       => trace[2].val = PI

C5_Witness ==
    /\ Chain(<<"fromRad", "getRad">>)
    /\ trace[1].r = -PI
    /\ trace[2].val = PI

\* C6: fromDeg(d) is the same Angle as fromRad(d*PI/180), and
\* fromDeg(d).getDeg() is congruent to d modulo 360, equal to d when
\* -180 < d <= 180.
C6_DegreesRoundTrip ==
    /\ Chain(<<"fromDeg">>) => trace[1].res = fromRad(deg2Rad(trace[1].r))
    /\ Chain(<<"fromDeg", "getDeg">>) =>
          /\ Congruent(trace[2].val, trace[1].r, 360)
          /\ (-180 < trace[1].r /\ trace[1].r <= 180) => trace[2].val = trace[1].r

C6_Witness ==
    /\ Chain(<<"fromDeg", "getDeg">>)
    /\ trace[1].r = 190
    /\ trace[2].val = -170

\* C7: a * k and k * a hold the same radian value, that of
\* fromRad(a.getRad() * k).
C7_ScalarCommutes ==
    Chain(<<"mulAD", "mulDA">>) =>
       /\ trace[2].a = trace[1].a /\ trace[2].r = trace[1].r
       /\ trace[2].res.rad = trace[1].res.rad
       /\ trace[1].res.rad = fromRad(trace[1].a.rad * trace[1].r).rad

C7_Witness ==
    /\ Chain(<<"mulAD", "mulDA">>)
    /\ trace[1].a.rad = PI - 1
    /\ trace[1].r = 3
    /\ trace[2].res.rad = PI - 3

C9_CanonicalUntouched ==
    /\ (Chain(<<"fromRad">>) /\ IsCanonical(trace[1].r)) => trace[1].res.rad = trace[1].r
    /\ (Chain(<<"fromRad", "getRad">>) /\ IsCanonical(trace[1].r)) => trace[2].val = trace[1].r
    /\ \A i \in 1..Len(trace) : trace[i].op = "getRad" => trace[i].val = trace[i].a.rad

C9_Witness ==
    /\ Chain(<<"fromRad", "getRad">>)
    /\ trace[1].r = PI
    /\ trace[2].val = PI

\* C10: for canonical a and b, ((a + b) - b).getRad() equals a.getRad(),
\* whether or not the sum wrapped.
C10_SubUndoesAdd ==
    (/\ Chain(<<"add", "sub", "getRad">>)
     /\ IsCanonical(trace[1].a.rad)
     /\ IsCanonical(trace[1].b.rad))
       => /\ trace[2].a = trace[1].res /\ trace[2].b = trace[1].b
          /\ trace[3].val = getRad(trace[1].a)

\* The sum 170 + 20 degrees wrapped to -170 degrees and the difference is
\* 170 degrees again.
C10_Witness ==
    /\ Chain(<<"add", "sub", "getRad">>)
    /\ trace[1].a.rad = PI - 1
    /\ trace[1].b.rad = 2
    /\ trace[1].res.rad = -(PI - 1)
    /\ trace[3].val = PI - 1

====
